---- MODULE Spec2Model ----
(***************************************************************************)
(* Tactical analytics of the racepilot dashboard (src/src/tacticalUtils.ts) *)
(* as state machines.  Each analytic is a pure function; a specification    *)
(* draws its inputs in its initial states and its actions run the function. *)
(* The two detectors are loops over the track and are modelled one loop     *)
(* iteration per step, with the loop index `i` and the result array under   *)
(* construction as state.  The race replay page                             *)
(* (src/src/pages/RaceReplayPage.tsx) is a state machine of its own: its    *)
(* handlers and its animation frame are the steps.                          *)
(*                                                                          *)
(* Numbers.  TLC has integers only, so quantities are fixed-point:          *)
(*   angles             whole degrees                                       *)
(*   timestamps         whole seconds (Date.getTime()/1000 of a 1 Hz fix)   *)
(*   sog                whole knots                                         *)
(*   latitude           micro-degrees; every fix lies on one meridian       *)
(*                      (lon = 0), where the haversine distance is exactly  *)
(*                      R * |dLat| (radians)                                *)
(*   distances          micrometres (micro-kilometres for the kilometre     *)
(*                      variant of the session-statistics helper)           *)
(*   replay time        milliseconds                                        *)
(*   a JavaScript number that is the result of a division is the record     *)
(*   [nan, num, den]: NaN, or the exact ratio num/den with den > 0.         *)
(* An optional field (twa, polarData) is the empty sequence when absent and *)
(* the one-element sequence <<v>> when present.                             *)
(***************************************************************************)
EXTENDS Integers, Sequences, FiniteSets, TLC

VARIABLES pc, trackPoints, thresholdDegrees, i, tacks, tackIdx, shifts, shiftIdx,
          args, result,
          isPlaying, currentIndex, playbackSpeed, sinceLastUpdate

\* The state of the race replay page (src/src/pages/RaceReplayPage.tsx).
\* sinceLastUpdate is Date.now() - lastUpdateRef.current, in milliseconds.
replayVars == <<isPlaying, currentIndex, playbackSpeed, sinceLastUpdate>>

\* The state of a call of an analytic.
callVars == <<pc, thresholdDegrees, i, tacks, tackIdx, shifts, shiftIdx, args, result>>

vars == <<pc, trackPoints, thresholdDegrees, i, tacks, tackIdx, shifts, shiftIdx,
          args, result, isPlaying, currentIndex, playbackSpeed, sinceLastUpdate>>

\* RaceReplayPage.tsx lines 76-80: the replay state when the page is mounted.
ReplayAtMount ==
    /\ isPlaying = FALSE
    /\ currentIndex = 0
    /\ playbackSpeed = 1
    /\ sinceLastUpdate = 0

\* ------------------------------------------------------------------ bounds

\* Longest track the maneuver detector is run on (besides the end-to-end scenario).
MaxLen == 3

\* ------------------------------------------------------- program constants

\* 0.514444 m/s per knot, in micrometres per second.
KnotsToUmPerSec == 514444

\* Earth radius 6371000 m times pi/180, per micro-degree, in micrometres.
UmPerMicroDeg == 111195

\* The session-statistics helper: R = 6371 km times pi / 180, per
\* milli-degree of arc, in micro-kilometres (111.195 metres).
UkmPerMilliDeg == 111195

\* ----------------------------------------------------------------- numbers

Abs(x) == IF x < 0 THEN -x ELSE x

None == <<>>
Some(v) == <<v>>

TruthyDefined(opt) == opt # None

\* JavaScript truthiness of an optional number: undefined and 0 are falsy.
Truthy(opt) == opt # None /\ opt[1] # 0

NaN == [nan |-> TRUE, num |-> 0, den |-> 1]
Num(n, d) == [nan |-> FALSE, num |-> n, den |-> d]

\* A zero-based array read, as the code indexes.
At(arr, k) == arr[k + 1]

\* ------------------------------------------------------- calculateDistance

calculateDistanceSigned(lat1, lon1, lat2, lon2) ==
    IF lon1 = lon2
    THEN (lat2 - lat1) * UmPerMicroDeg
    ELSE (lon2 - lon1) * UmPerMicroDeg

\* Haversine distance in micrometres, on the two great circles where the
\* formula is linear.  Two fixes of one meridian: dLon = 0, so
\* a = sin^2(dLat/2), c = |dLat| in radians, and R * c.  Two fixes of the
\* equator (lat1 = lat2 = 0): a = sin^2(dLon/2), c = |dLon|, and R * c.
calculateDistance(lat1, lon1, lat2, lon2) ==
    IF lon1 = lon2
    THEN Abs(lat2 - lat1) * UmPerMicroDeg
    ELSE Abs(lon2 - lon1) * UmPerMicroDeg

\* ------------------------------------------------------------- detectTacks

\* Line 136: if (!current.twa || !prev.twa) continue;
TackSkipped(prev, current) == ~Truthy(current.twa) \/ ~Truthy(prev.twa)

TackDetectedOneWay(prev, current) ==
    prev.twa[1] > 0 /\ current.twa[1] < 0

\* Lines 139-141.
TackDetected(prev, current) ==
    \/ (prev.twa[1] > 0 /\ current.twa[1] < 0)
    \/ (prev.twa[1] < 0 /\ current.twa[1] > 0)

\* The haversine distance of the session-statistics helper, in
\* micro-kilometres, on the same two great circles: the same formula with
\* R = 6371, the arc taken in milli-degrees.
calculateDistanceKm(lat1, lon1, lat2, lon2) ==
    IF lon1 = lon2
    THEN (Abs(lat2 - lat1) * UkmPerMilliDeg) \div 1000
    ELSE (Abs(lon2 - lon1) * UkmPerMilliDeg) \div 1000

TimeDiffSwapped(prev, current) == prev.ts - current.ts

\* Line 145: (getTime() - getTime()) / 1000, in seconds.
TimeDiff(prev, current) == current.ts - prev.ts

ExpectedDistanceNoMean(prev, current) ==
    (prev.sog + current.sog) * KnotsToUmPerSec * TimeDiff(prev, current)

\* Line 149, in micrometres ((a + b) * 514444 is even).
ExpectedDistance(prev, current) ==
    ((prev.sog + current.sog) * KnotsToUmPerSec * TimeDiff(prev, current)) \div 2

\* Line 151: Math.max(0, Math.min(100, (distance / expectedDistance) * 100)).
\* x/0 is +Infinity for x > 0 and NaN for x = 0; Math.min and Math.max
\* return NaN when an argument is NaN.
Efficiency(distance, expectedDistance) ==
    IF expectedDistance = 0
    THEN IF distance = 0 THEN NaN ELSE Num(100, 1)
    ELSE IF expectedDistance < 0 \/ distance <= 0
         THEN Num(0, 1)
         ELSE IF distance >= expectedDistance
              THEN Num(100, 1)
              ELSE Num(distance * 100, expectedDistance)

TackEventKm(prev, current) ==
    LET timeDiff == TimeDiff(prev, current)
        distance == calculateDistanceKm(prev.lat, prev.lon, current.lat, current.lon)
        expectedDistance == ExpectedDistance(prev, current)
    IN  [timestamp    |-> current.ts,
         lat          |-> current.lat,
         lon          |-> current.lon,
         lostDistance |-> expectedDistance - distance,
         timeInIrons  |-> timeDiff,
         efficiency   |-> Efficiency(distance, expectedDistance)]

TackEventAtPrev(prev, current) ==
    LET timeDiff == TimeDiff(prev, current)
        distance == calculateDistance(prev.lat, prev.lon, current.lat, current.lon)
        expectedDistance == ExpectedDistance(prev, current)
    IN  [timestamp    |-> prev.ts,
         lat          |-> prev.lat,
         lon          |-> prev.lon,
         lostDistance |-> expectedDistance - distance,
         timeInIrons  |-> timeDiff,
         efficiency   |-> Efficiency(distance, expectedDistance)]

\* Lines 143-160: the event pushed for a detected tack.
TackEvent(prev, current) ==
    LET timeDiff == TimeDiff(prev, current)
        distance == calculateDistance(prev.lat, prev.lon, current.lat, current.lon)
        expectedDistance == ExpectedDistance(prev, current)
    IN  [timestamp    |-> current.ts,
         lat          |-> current.lat,
         lon          |-> current.lon,
         lostDistance |-> expectedDistance - distance,
         timeInIrons  |-> timeDiff,
         efficiency   |-> Efficiency(distance, expectedDistance)]

\* An iteration that leaves the loop at a sample without wind data.
TackIterBreak ==
    /\ pc = "detectTacks"
    /\ i < Len(trackPoints)
    /\ LET current == At(trackPoints, i)
           prev == At(trackPoints, i - 1)
       IN  IF TackSkipped(prev, current)
           THEN /\ i' = Len(trackPoints)
                /\ UNCHANGED <<tacks, tackIdx>>
           ELSE /\ i' = i + 1
                /\ IF TackDetected(prev, current)
                   THEN /\ tacks' = Append(tacks, TackEvent(prev, current))
                        /\ tackIdx' = Append(tackIdx, i)
                   ELSE UNCHANGED <<tacks, tackIdx>>
    /\ UNCHANGED <<pc, trackPoints, thresholdDegrees, shifts, shiftIdx, args, result, replayVars>>

\* An iteration that compares the sample with the last one that had wind data.
TackIterRemembering ==
    /\ pc = "detectTacks"
    /\ i < Len(trackPoints)
    /\ LET current == At(trackPoints, i)
           withTwa == { j \in 0..(i - 1) : Truthy(At(trackPoints, j).twa) }
           last == CHOOSE j \in withTwa : \A k \in withTwa : k <= j
       IN  IF Truthy(current.twa) /\ withTwa # {}
              /\ TackDetected(At(trackPoints, last), current)
           THEN /\ tacks' = Append(tacks, TackEvent(At(trackPoints, last), current))
                /\ tackIdx' = Append(tackIdx, i)
           ELSE UNCHANGED <<tacks, tackIdx>>
    /\ i' = i + 1
    /\ UNCHANGED <<pc, trackPoints, thresholdDegrees, shifts, shiftIdx, args, result, replayVars>>

\* An iteration that puts its event in front of the earlier ones.
TackIterPrepend ==
    /\ pc = "detectTacks"
    /\ i < Len(trackPoints)
    /\ LET current == At(trackPoints, i)
           prev == At(trackPoints, i - 1)
       IN  IF ~TackSkipped(prev, current) /\ TackDetected(prev, current)
           THEN /\ tacks' = <<TackEvent(prev, current)>> \o tacks
                /\ tackIdx' = <<i>> \o tackIdx
           ELSE UNCHANGED <<tacks, tackIdx>>
    /\ i' = i + 1
    /\ UNCHANGED <<pc, trackPoints, thresholdDegrees, shifts, shiftIdx, args, result, replayVars>>

\* One iteration of the loop of lines 132-164.  tackIdx records, beside each
\* pushed event, the index i of the iteration that pushed it.  The local
\* previousTWA (lines 130, 163) is written and never read, so it is no state.
TackIter ==
    /\ pc = "detectTacks"
    /\ i < Len(trackPoints)
    /\ LET current == At(trackPoints, i)
           prev == At(trackPoints, i - 1)
       IN  IF ~TackSkipped(prev, current) /\ TackDetected(prev, current)
           THEN /\ tacks' = Append(tacks, TackEvent(prev, current))
                /\ tackIdx' = Append(tackIdx, i)
           ELSE UNCHANGED <<tacks, tackIdx>>
    /\ i' = i + 1
    /\ UNCHANGED <<pc, trackPoints, thresholdDegrees, shifts, shiftIdx, args, result, replayVars>>

\* Line 166: the loop condition fails and the array is returned.
TackReturn ==
    /\ pc = "detectTacks"
    /\ ~(i < Len(trackPoints))
    /\ pc' = "done"
    /\ result' = tacks
    /\ UNCHANGED <<trackPoints, thresholdDegrees, i, tacks, tackIdx, shifts, shiftIdx, args, replayVars>>

\* ---- inputs of detectTacks

TwaVals == {None, Some(-5), Some(0), Some(5)}
SogVals == {0, 6}
DtVals == {0, 1}
DLatVals == {0, 20}

RECURSIVE SumTo(_, _)
SumTo(f, k) == IF k < 2 THEN 0 ELSE f[k] + SumTo(f, k - 1)

\* The track of n fixes with the given wind angles and speeds, the k-th fix
\* dt[k] seconds and dlat[k] micro-degrees after the one before it.
MkTrack(n, twa, sog, dt, dlat) ==
    [k \in 1..n |-> [ts  |-> SumTo(dt, k),
                     lat |-> SumTo(dlat, k),
                     lon |-> 0,
                     sog |-> sog[k],
                     twa |-> twa[k]]]

\* The end-to-end scenario: twa -20, -5, 5, 20, sog 6, one second apart, the
\* boat moving or not between fixes.
ScenarioTwa == <<Some(-20), Some(-5), Some(5), Some(20)>>

ScenarioTrack(dlat) ==
    MkTrack(4, ScenarioTwa, [k \in 1..4 |-> 6], [k \in 2..4 |-> 1], dlat)

InitTacks ==
    /\ pc = "detectTacks"
    /\ \/ \E n \in 0..MaxLen :
             \E twa \in [1..n -> TwaVals], sog \in [1..n -> SogVals],
                dt \in [2..n -> DtVals], dlat \in [2..n -> DLatVals] :
                trackPoints = MkTrack(n, twa, sog, dt, dlat)
       \/ \E dlat \in [2..4 -> DLatVals] : trackPoints = ScenarioTrack(dlat)
    /\ thresholdDegrees = 0
    /\ i = 1
    /\ tacks = <<>>
    /\ tackIdx = <<>>
    /\ shifts = <<>>
    /\ shiftIdx = <<>>
    /\ args = <<>>
    /\ result = <<>>
    /\ ReplayAtMount

NextTacks == TackIter \/ TackReturn

SpecTacks == InitTacks /\ [][NextTacks]_vars

\* ---- claims about detectTacks

Sign(x) == IF x > 0 THEN 1 ELSE IF x < 0 THEN -1 ELSE 0

Range(seq) == { seq[k] : k \in 1..Len(seq) }

Present(opt) == opt # None

\* The indexes whose loop iteration has run.
TackProcessed == 1..(i - 1)

TwaAt(k) == At(trackPoints, k).twa

\* C1 as claimed: an event is emitted for index j exactly when both twa[j-1] and
\* twa[j] are present and their three-valued signs differ (a present 0 next to
\* a non-zero twa counting as a crossing).
C1_SignDiffers ==
    pc \in {"detectTacks", "done"} =>
        \A j \in TackProcessed :
            j \in Range(tackIdx) <=>
                /\ Present(TwaAt(j - 1)) /\ Present(TwaAt(j))
                /\ Sign(TwaAt(j - 1)[1]) # Sign(TwaAt(j)[1])

\* C1 amended: an event is emitted for index j (1 <= j < n) exactly when both
\* twa[j-1] and twa[j] are present and of strictly opposite sign, one above and
\* one below zero; a twa of 0 never takes part in a crossing, and no event is
\* emitted for any other index.
C1_OppositeSigns ==
    pc \in {"detectTacks", "done"} =>
        /\ \A j \in TackProcessed :
              j \in Range(tackIdx) <=>
                  /\ Present(TwaAt(j - 1)) /\ Present(TwaAt(j))
                  /\ Sign(TwaAt(j - 1)[1]) * Sign(TwaAt(j)[1]) = -1
        /\ Range(tackIdx) \subseteq TackProcessed
        /\ Len(tacks) = Len(tackIdx)

\* A finished run over three fixes with a present twa of 0 next to a non-zero
\* one (no event) followed by a true crossing (one event, at index 2).
C1_Witness ==
    /\ pc = "done"
    /\ Len(trackPoints) = 3
    /\ TwaAt(0) = Some(0) /\ TwaAt(1) = Some(5) /\ TwaAt(2) = Some(-5)
    /\ tackIdx = <<2>>

\* The expected distance of the pair that produced the k-th event.
ExpectedOfEvent(k) ==
    ExpectedDistance(At(trackPoints, tackIdx[k] - 1), At(trackPoints, tackIdx[k]))

\* C2: every event whose expected distance is 0 (equal timestamps, or both sog
\* 0) has efficiency exactly 0: not NaN, not 100.
C2_ZeroExpectedZeroEfficiency ==
    pc \in {"detectTacks", "done"} =>
        \A k \in 1..Len(tacks) :
            ExpectedOfEvent(k) = 0 => tacks[k].efficiency = Num(0, 1)

IsScenario(tp) ==
    /\ Len(tp) = 4
    /\ \A k \in 1..4 : tp[k].twa = ScenarioTwa[k] /\ tp[k].sog = 6
    /\ \A k \in 2..4 : tp[k].ts - tp[k - 1].ts = 1

\* C3: on twa -20, -5, 5, 20 with sog 6 and one second between fixes the call
\* returns exactly one event, from the pair (1, 2), with timeInIrons 1.
C3_EndToEnd ==
    (pc = "done" /\ IsScenario(trackPoints)) =>
        /\ Len(result) = 1
        /\ tackIdx = <<2>>
        /\ result[1].timeInIrons = 1
        /\ result[1].timestamp = At(trackPoints, 2).ts

C3_Witness ==
    /\ pc = "done"
    /\ IsScenario(trackPoints)
    /\ Len(result) = 1
    /\ result[1].efficiency = Num(2223900 * 100, 3086664)

\* -------------------------------------------------------- detectWindShifts

\* Longest track the wind-shift detector is run on.
MaxShiftLen == 7

\* Line 285: the detector compares with the sample 5 points ago.
Lag == 5

\* Line 279: thresholdDegrees defaults to 10 when the caller omits it.
DefaultThreshold == 10

ThresholdOrDefault(opt) == IF opt = None THEN DefaultThreshold ELSE opt[1]

\* Line 287: if (!current.twa || !previous.twa) continue;
ShiftSkipped(previous, current) == ~Truthy(current.twa) \/ ~Truthy(previous.twa)

ShiftOfSwapped(previous, current) == previous.twa[1] - current.twa[1]

\* Line 289.
ShiftOf(previous, current) == current.twa[1] - previous.twa[1]

\* Lines 292-296: the event pushed for a shift.
ShiftEvent(current, shift) ==
    [timestamp |-> current.ts,
     shift     |-> shift,
     type      |-> IF shift > 0 THEN "lift" ELSE "header"]

\* One iteration of the loop of lines 283-298.  shiftIdx records, beside each
\* pushed event, the index i of the iteration that pushed it.
ShiftIter ==
    /\ pc = "detectWindShifts"
    /\ i < Len(trackPoints)
    /\ LET current == At(trackPoints, i)
           previous == At(trackPoints, i - Lag)
       IN  IF ~ShiftSkipped(previous, current)
              /\ Abs(ShiftOf(previous, current)) > thresholdDegrees
           THEN /\ shifts' = Append(shifts, ShiftEvent(current, ShiftOf(previous, current)))
                /\ shiftIdx' = Append(shiftIdx, i)
           ELSE UNCHANGED <<shifts, shiftIdx>>
    /\ i' = i + 1
    /\ UNCHANGED <<pc, trackPoints, thresholdDegrees, tacks, tackIdx, args, result, replayVars>>

\* Line 300: the loop condition fails and the array is returned.
ShiftReturn ==
    /\ pc = "detectWindShifts"
    /\ ~(i < Len(trackPoints))
    /\ pc' = "done"
    /\ result' = shifts
    /\ UNCHANGED <<trackPoints, thresholdDegrees, i, tacks, tackIdx, shifts, shiftIdx, args, replayVars>>

\* ---- inputs of detectWindShifts

ShiftTwaVals == {None, Some(0), Some(-5), Some(6)}

\* The threshold argument: omitted, or given (below, at and between the
\* differences the wind angles above produce; one negative).
ThresholdArgs == {None, Some(-1), Some(0), Some(5), Some(11)}

\* A 1 Hz track sailed north at 6 knots with the given wind angles.
ShiftTrack(n, twa) ==
    [k \in 1..n |-> [ts  |-> k - 1,
                     lat |-> 20 * (k - 1),
                     lon |-> 0,
                     sog |-> 6,
                     twa |-> twa[k]]]

InitShifts ==
    /\ pc = "detectWindShifts"
    /\ \E n \in 0..MaxShiftLen : \E twa \in [1..n -> ShiftTwaVals] :
          trackPoints = ShiftTrack(n, twa)
    /\ \E t \in ThresholdArgs : thresholdDegrees = ThresholdOrDefault(t)
    /\ i = Lag
    /\ tacks = <<>>
    /\ tackIdx = <<>>
    /\ shifts = <<>>
    /\ shiftIdx = <<>>
    /\ args = <<>>
    /\ result = <<>>
    /\ ReplayAtMount

NextShifts == ShiftIter \/ ShiftReturn

SpecShifts == InitShifts /\ [][NextShifts]_vars

\* ---- claims about detectWindShifts

\* The indexes whose loop iteration has run.
ShiftProcessed == Lag..(i - 1)

\* C4: an event is emitted for index j exactly when j >= 5, twa[j] and twa[j-5]
\* are both present and |twa[j] - twa[j-5]| > threshold (strictly); fewer than 6
\* samples give an empty result.
C4_EmittedIffBeyondThreshold ==
    pc \in {"detectWindShifts", "done"} =>
        /\ \A j \in ShiftProcessed :
              j \in Range(shiftIdx) <=>
                  /\ Present(TwaAt(j)) /\ Present(TwaAt(j - Lag))
                  /\ Abs(TwaAt(j)[1] - TwaAt(j - Lag)[1]) > thresholdDegrees
        /\ Range(shiftIdx) \subseteq ShiftProcessed
        /\ (pc = "done" /\ Len(trackPoints) < Lag + 1 => result = <<>>)

\* C5: every event carries shift = twa[j] - twa[j-5] and the timestamp of sample
\* j, is a lift when the shift is positive and a header when it is negative, and
\* under a non-negative threshold no event has shift 0.
C5_EventFields ==
    pc \in {"detectWindShifts", "done"} =>
        /\ Len(shifts) = Len(shiftIdx)
        /\ \A k \in 1..Len(shifts) :
              LET j == shiftIdx[k]
                  e == shifts[k]
              IN  /\ Present(TwaAt(j)) /\ Present(TwaAt(j - Lag))
                  /\ e.shift = TwaAt(j)[1] - TwaAt(j - Lag)[1]
                  /\ e.timestamp = At(trackPoints, j).ts
                  /\ (e.shift > 0 => e.type = "lift")
                  /\ (e.shift < 0 => e.type = "header")
                  /\ e.type \in {"lift", "header"}
                  /\ (thresholdDegrees >= 0 => e.shift # 0)

\* A finished run that returned a header (index 5) and then a lift (index 6).
C5_Witness ==
    /\ pc = "done"
    /\ thresholdDegrees >= 0
    /\ Len(result) = 2
    /\ result[1].type = "header" /\ result[1].shift = -11 /\ result[1].timestamp = 5
    /\ result[2].type = "lift" /\ result[2].shift = 11 /\ result[2].timestamp = 6

\* -------------------------------------------------- calculateStartLineBias

\* The remainder operator % of JavaScript: truncated, with the sign of the
\* dividend (TLA+'s % is floored and never negative).
JsRem(a, n) == IF a >= 0 THEN a % n ELSE -((-a) % n)

\* Line 208: (atan2 * 180 / PI + 360) % 360, for the angle `bearing` that
\* Math.atan2(y, x) * 180 / PI gives for the two ends of the line, in [-180, 180].
LineHeading(bearing) == JsRem(bearing + 360, 360)

\* Line 211.
Bias(windDirection, lineHeading) ==
    JsRem(windDirection - lineHeading + 180, 360) - 180

FavoredEndNonStrict(bias) ==
    IF Abs(bias) <= 5 THEN "neutral"
    ELSE IF bias > 0 THEN "pin" ELSE "boat"

\* Lines 214-221.
FavoredEnd(bias) ==
    IF Abs(bias) < 5 THEN "neutral"
    ELSE IF bias > 0 THEN "pin" ELSE "boat"

\* Lines 201-223, from the atan2 angle of the line on.
calculateStartLineBias(bearing, windDirection) ==
    LET lineHeading == LineHeading(bearing)
        bias == Bias(windDirection, lineHeading)
    IN  [lineHeading |-> lineHeading,
         bias        |-> bias,
         favoredEnd  |-> FavoredEnd(bias)]

BiasCall ==
    /\ pc = "calculateStartLineBias"
    /\ result' = calculateStartLineBias(args.bearing, args.windDirection)
    /\ pc' = "done"
    /\ UNCHANGED <<trackPoints, thresholdDegrees, i, tacks, tackIdx, shifts, shiftIdx, args, replayVars>>

InitBias ==
    /\ pc = "calculateStartLineBias"
    /\ \E b \in -180..180, w \in 0..359 :
          args = [bearing |-> b, windDirection |-> w]
    /\ trackPoints = <<>>
    /\ thresholdDegrees = 0
    /\ i = 0
    /\ tacks = <<>>
    /\ tackIdx = <<>>
    /\ shifts = <<>>
    /\ shiftIdx = <<>>
    /\ result = <<>>
    /\ ReplayAtMount

NextBias == BiasCall

SpecBias == InitBias /\ [][NextBias]_vars

\* ---- claims about calculateStartLineBias

\* The signed angle in [-180, 180) congruent to d modulo 360.
ShortestSigned(d) == ((d + 180) % 360) - 180

\* C6: for wind direction and line heading in [0, 360) the returned bias lies in
\* [-180, 180] and is congruent to windDirection - lineHeading modulo 360.
C6_BiasNormalised ==
    pc = "done" =>
        /\ result.lineHeading \in 0..359
        /\ result.bias >= -180 /\ result.bias <= 180
        /\ (result.bias - (args.windDirection - result.lineHeading)) % 360 = 0

\* C7: favoredEnd is neutral exactly when the shortest signed angle from the
\* line heading to the wind direction is strictly within 5 degrees, otherwise
\* pin when that angle is positive and boat when it is negative; so it depends
\* on windDirection - lineHeading only modulo 360.
C7_FavoredEndOfShortestAngle ==
    pc = "done" =>
        LET s == ShortestSigned(args.windDirection - result.lineHeading)
        IN  /\ (result.favoredEnd = "neutral" <=> Abs(result.bias) < 5)
            /\ (result.favoredEnd = "neutral" <=> Abs(s) < 5)
            /\ (result.favoredEnd = "pin" <=> (Abs(s) >= 5 /\ s > 0))
            /\ (result.favoredEnd = "boat" <=> (Abs(s) >= 5 /\ s < 0))

\* ---------------------------------------------------- calculatePerformance

\* Longest axis (tws, twa) and largest grid side of the polar tables tried.
MaxAxisLen == 2

\* Array.prototype.findIndex with the test v >= x: the zero-based index of the
\* first entry that passes, -1 when none does.
RECURSIVE FindIndexFrom(_, _, _)
FindIndexFrom(arr, x, k) ==
    IF k > Len(arr) THEN -1
    ELSE IF arr[k] >= x THEN k - 1
    ELSE FindIndexFrom(arr, x, k + 1)

RECURSIVE FindIndexGtFrom(_, _, _)
FindIndexGtFrom(arr, x, k) ==
    IF k > Len(arr) THEN -1
    ELSE IF arr[k] > x THEN k - 1
    ELSE FindIndexGtFrom(arr, x, k + 1)

FindIndexGt(arr, x) == FindIndexGtFrom(arr, x, 1)

\* Lines 265-266.
FindIndexGe(arr, x) == FindIndexFrom(arr, x, 1)

\* Line 271: polarData.target[twsIndex]?.[twaIndex] || 0.  An index past the
\* end of an array reads undefined; ?. passes undefined on; undefined || 0 is 0.
TargetCell(target, twsIndex, twaIndex) ==
    IF twsIndex < 0 \/ twsIndex >= Len(target) THEN 0
    ELSE LET row == At(target, twsIndex)
         IN  IF twaIndex < 0 \/ twaIndex >= Len(row) THEN 0
             ELSE At(row, twaIndex)

\* A lookup that takes the last entry of an axis when none reaches the value.
interpolatePolarClamped(polarData, windSpeed, windAngle) ==
    LET twsIndex == FindIndexGe(polarData.tws, windSpeed)
        twaIndex == FindIndexGe(polarData.twa, windAngle)
    IN  TargetCell(polarData.target,
                   IF twsIndex = -1 THEN Len(polarData.tws) - 1 ELSE twsIndex,
                   IF twaIndex = -1 THEN Len(polarData.twa) - 1 ELSE twaIndex)

\* Lines 258-272.
interpolatePolar(polarData, windSpeed, windAngle) ==
    LET twsIndex == FindIndexGe(polarData.tws, windSpeed)
        twaIndex == FindIndexGe(polarData.twa, windAngle)
    IN  IF twsIndex = -1 \/ twaIndex = -1 THEN 0
        ELSE TargetCell(polarData.target, twsIndex, twaIndex)

\* a / b * 100 for b # 0, as an exact ratio with a positive denominator.
Percent(a, b) == IF b > 0 THEN Num(a * 100, b) ELSE Num(-(a * 100), -b)

calculatePerformanceNoDefault(actualSpeed, windSpeed, windAngle, polarData) ==
    IF polarData = None THEN Num(0, 1)
    ELSE LET targetSpeed == interpolatePolar(polarData[1], windSpeed, Abs(windAngle))
         IN  IF targetSpeed = 0 THEN Num(0, 1)
             ELSE Percent(actualSpeed, targetSpeed)

\* Lines 240-253.
calculatePerformance(actualSpeed, windSpeed, windAngle, polarData) ==
    IF polarData = None THEN Num(100, 1)
    ELSE LET targetSpeed == interpolatePolar(polarData[1], windSpeed, Abs(windAngle))
         IN  IF targetSpeed = 0 THEN Num(0, 1)
             ELSE Percent(actualSpeed, targetSpeed)

PerfCall ==
    /\ pc = "calculatePerformance"
    /\ result' = calculatePerformance(args.actualSpeed, args.windSpeed,
                                      args.windAngle, args.polarData)
    /\ pc' = "done"
    /\ UNCHANGED <<trackPoints, thresholdDegrees, i, tacks, tackIdx, shifts, shiftIdx, args, replayVars>>

\* ---- inputs of calculatePerformance

ActualSpeeds == {-3, 0, 6}
WindSpeeds == {-1, 0, 5, 7, 12}
WindAngles == {-100, -45, 0, 60}
TwsVals == {5, 10}
TwaAxisVals == {45, 90}

\* The grid of r rows and c columns whose cell (a, b), zero-based, holds
\* 5 + 3a + b, or 0 where `zeros` and a + b is even.
Grid(r, c, zeros) ==
    [a \in 1..r |-> [b \in 1..c |->
        IF zeros /\ (a + b) % 2 = 0 THEN 0 ELSE 5 + 3 * (a - 1) + (b - 1)]]

InitPerf ==
    /\ pc = "calculatePerformance"
    /\ \E as \in ActualSpeeds, ws \in WindSpeeds, wa \in WindAngles :
          \/ args = [actualSpeed |-> as, windSpeed |-> ws, windAngle |-> wa,
                     polarData |-> None]
          \/ \E n \in 0..MaxAxisLen, m \in 0..MaxAxisLen,
                r \in 0..MaxAxisLen, c \in 0..MaxAxisLen, zeros \in BOOLEAN :
                \E tws \in [1..n -> TwsVals], twa \in [1..m -> TwaAxisVals] :
                   args = [actualSpeed |-> as, windSpeed |-> ws, windAngle |-> wa,
                           polarData |-> Some([tws |-> tws, twa |-> twa,
                                               target |-> Grid(r, c, zeros)])]
    /\ trackPoints = <<>>
    /\ thresholdDegrees = 0
    /\ i = 0
    /\ tacks = <<>>
    /\ tackIdx = <<>>
    /\ shifts = <<>>
    /\ shiftIdx = <<>>
    /\ result = <<>>
    /\ ReplayAtMount

NextPerf == PerfCall

SpecPerf == InitPerf /\ [][NextPerf]_vars

\* ---- claims about calculatePerformance

\* C8: without a polar table the result is exactly 100, whatever the actual
\* speed, wind speed and wind angle (0 and negative values included).
C8_NoPolarIs100 ==
    (pc = "done" /\ args.polarData = None) => result = Num(100, 1)

C8_Witness ==
    /\ pc = "done"
    /\ args.polarData = None
    /\ args.actualSpeed < 0 /\ args.windSpeed = 0 /\ args.windAngle < 0
    /\ result = Num(100, 1)

\* No entry of the axis reaches x.
Exceeds(axis, x) == \A k \in 1..Len(axis) : axis[k] < x

\* The zero-based index of the first entry of the axis that is >= x.
FirstReaching(axis, x) ==
    (CHOOSE k \in 1..Len(axis) :
        axis[k] >= x /\ \A l \in 1..(k - 1) : axis[l] < x) - 1

\* The grid holds a cell at row a, column b (zero-based).
HasCell(target, a, b) == a < Len(target) /\ b < Len(At(target, a))

\* C9: with a polar table, the result is 0 whenever the wind speed exceeds every
\* tws entry or |windAngle| exceeds every twa entry (an empty axis included), or
\* the grid lacks the looked-up cell.
C9_OutOfRangeIsZero ==
    (pc = "done" /\ args.polarData # None) =>
        LET p == args.polarData[1]
            outOfRange == \/ Exceeds(p.tws, args.windSpeed)
                          \/ Exceeds(p.twa, Abs(args.windAngle))
        IN  /\ outOfRange => result = Num(0, 1)
            /\ (~outOfRange
                /\ ~HasCell(p.target, FirstReaching(p.tws, args.windSpeed),
                            FirstReaching(p.twa, Abs(args.windAngle))))
               => result = Num(0, 1)

\* A call with a full 2 x 2 table and a non-zero actual speed whose wind speed
\* is above every tws entry.
C9_Witness ==
    /\ pc = "done"
    /\ args.polarData # None
    /\ args.polarData[1].tws = <<5, 10>>
    /\ args.polarData[1].twa = <<45, 90>>
    /\ args.polarData[1].target = Grid(2, 2, FALSE)
    /\ args.windSpeed = 12 /\ args.windAngle = 60 /\ args.actualSpeed = 6
    /\ result = Num(0, 1)

\* C10: with a polar table and both lookups succeeding on an existing cell, the
\* target is target[a][b] for the smallest a with tws[a] >= windSpeed and the
\* smallest b with twa[b] >= |windAngle|; the result is actualSpeed / target * 100,
\* and 0 when the target is 0.
C10_NearestCeilingCell ==
    (pc = "done" /\ args.polarData # None) =>
        LET p == args.polarData[1]
        IN  (/\ ~Exceeds(p.tws, args.windSpeed)
             /\ ~Exceeds(p.twa, Abs(args.windAngle))
             /\ HasCell(p.target, FirstReaching(p.tws, args.windSpeed),
                        FirstReaching(p.twa, Abs(args.windAngle))))
            => LET t == At(At(p.target, FirstReaching(p.tws, args.windSpeed)),
                          FirstReaching(p.twa, Abs(args.windAngle)))
               IN  /\ ~result.nan
                   /\ (t = 0 => result = Num(0, 1))
                   /\ (t # 0 => result.num * t = args.actualSpeed * 100 * result.den)

\* A call that looks up the second row and first column of a full 2 x 2 table:
\* wind speed 7 lies between the tws entries, |-45| equals the first twa entry.
C10_Witness ==
    /\ pc = "done"
    /\ args.polarData # None
    /\ args.polarData[1].tws = <<5, 10>>
    /\ args.polarData[1].twa = <<45, 90>>
    /\ args.polarData[1].target = Grid(2, 2, FALSE)
    /\ args.windSpeed = 7 /\ args.windAngle = -45 /\ args.actualSpeed = 6
    /\ result = Num(600, 8)

\* ------------------------------------------------------------ calculateVMG

\* Math.cos of a whole number of degrees between 0 and 90, times 10000.
CosTable ==
    <<10000, 9998, 9994, 9986, 9976, 9962, 9945, 9925, 9903, 9877,
      9848, 9816, 9781, 9744, 9703, 9659, 9613, 9563, 9511, 9455,
      9397, 9336, 9272, 9205, 9135, 9063, 8988, 8910, 8829, 8746,
      8660, 8572, 8480, 8387, 8290, 8192, 8090, 7986, 7880, 7771,
      7660, 7547, 7431, 7314, 7193, 7071, 6947, 6820, 6691, 6561,
      6428, 6293, 6157, 6018, 5878, 5736, 5592, 5446, 5299, 5150,
      5000, 4848, 4695, 4540, 4384, 4226, 4067, 3907, 3746, 3584,
      3420, 3256, 3090, 2924, 2756, 2588, 2419, 2250, 2079, 1908,
      1736, 1564, 1392, 1219, 1045, 872, 698, 523, 349, 175, 0>>

\* Math.cos((deg * Math.PI) / 180) times 10000, for any whole number of
\* degrees: even, of period 360, and cos(180 - x) = -cos(x).
CosE4(deg) ==
    LET a == Abs(deg) % 360
        b == IF a > 180 THEN 360 - a ELSE a
    IN  IF b > 90 THEN -CosTable[(180 - b) + 1] ELSE CosTable[b + 1]

AngleToTargetNoOffset(cog, targetHeading) ==
    Abs(JsRem(cog - targetHeading, 360) - 180)

\* Line 34.
AngleToTarget(cog, targetHeading) ==
    Abs(JsRem(cog - targetHeading + 180, 360) - 180)

\* Line 35, in 1/10000 knot.
Vmg(sog, cog, targetHeading) == sog * CosE4(AngleToTarget(cog, targetHeading))

\* Lines 38-40: twa && Math.abs(twa) < 90 ? sog * cos(twa) : 0.
VmgUpwind(sog, twa) ==
    IF Truthy(twa) /\ Abs(twa[1]) < 90 THEN sog * CosE4(twa[1]) ELSE 0

\* Lines 43-45: twa && Math.abs(twa) > 90 ? sog * cos(180 - |twa|) : 0.
VmgDownwind(sog, twa) ==
    IF Truthy(twa) /\ Abs(twa[1]) > 90 THEN sog * CosE4(180 - Abs(twa[1])) ELSE 0

\* Line 48.
TargetAngle(twa) == IF Truthy(twa) /\ Abs(twa[1]) < 90 THEN 42 ELSE 145

\* Lines 30-57.
calculateVMG(trackPoint, targetHeading) ==
    [timestamp   |-> trackPoint.ts,
     vmg         |-> Vmg(trackPoint.sog, trackPoint.cog, targetHeading),
     vmgUpwind   |-> VmgUpwind(trackPoint.sog, trackPoint.twa),
     vmgDownwind |-> VmgDownwind(trackPoint.sog, trackPoint.twa),
     targetAngle |-> TargetAngle(trackPoint.twa)]

VmgCall ==
    /\ pc = "calculateVMG"
    /\ result' = calculateVMG(args.trackPoint, args.targetHeading)
    /\ pc' = "done"
    /\ UNCHANGED <<trackPoints, thresholdDegrees, i, tacks, tackIdx, shifts, shiftIdx, args, replayVars>>

\* ---- inputs of calculateVMG

VmgSogVals == {0, 6}
VmgCourses == {0, 90, 359}

VmgPoint(sog, cog, twa) ==
    [ts |-> 7, lat |-> 0, lon |-> 0, sog |-> sog, cog |-> cog, twa |-> twa]

\* Every course and target heading of [0, 360) at 6 knots without wind data;
\* and a few courses and headings with every wind angle, absent or in
\* [-180, 180], at rest and at 6 knots.
InitVmg ==
    /\ pc = "calculateVMG"
    /\ \/ \E cog \in 0..359, th \in 0..359 :
             args = [trackPoint |-> VmgPoint(6, cog, None), targetHeading |-> th]
       \/ \E cog \in VmgCourses, th \in VmgCourses, sog \in VmgSogVals :
             \/ args = [trackPoint |-> VmgPoint(sog, cog, None), targetHeading |-> th]
             \/ \E twa \in -180..180 :
                   args = [trackPoint |-> VmgPoint(sog, cog, Some(twa)),
                           targetHeading |-> th]
    /\ trackPoints = <<>>
    /\ thresholdDegrees = 0
    /\ i = 0
    /\ tacks = <<>>
    /\ tackIdx = <<>>
    /\ shifts = <<>>
    /\ shiftIdx = <<>>
    /\ result = <<>>
    /\ ReplayAtMount

NextVmg == VmgCall

SpecVmg == InitVmg /\ [][NextVmg]_vars

\* ---- claims about calculateVMG

\* C11: when cog equals the target heading, vmg equals sog exactly (here in
\* 1/10000 knot), whatever twa is.
C11_VmgOnTarget ==
    (pc = "done" /\ args.trackPoint.cog = args.targetHeading) =>
        result.vmg = args.trackPoint.sog * 10000

C11_Witness ==
    /\ pc = "done"
    /\ args.trackPoint.cog = 359 /\ args.targetHeading = 359
    /\ args.trackPoint.sog = 6
    /\ args.trackPoint.twa = Some(-135)
    /\ result.vmg = 60000

\* C12: for cog and target heading in [0, 360) the angle whose cosine is taken
\* is the angular difference normalised into [-180, 180]: its magnitude is at
\* most 180 and it is the shortest angle between the two directions.
C12_AngleNormalised ==
    pc = "done" =>
        LET a == AngleToTarget(args.trackPoint.cog, args.targetHeading)
            d == ShortestSigned(args.trackPoint.cog - args.targetHeading)
        IN  /\ a >= 0 /\ a <= 180
            /\ a = Abs(d)

\* C13: vmgUpwind is sog * cos(twa) when twa is present with |twa| < 90 (sog at
\* twa = 0) and 0 otherwise; vmgDownwind is sog * cos(180 - |twa|) when twa is
\* present with |twa| > 90 and 0 otherwise; both are 0 when twa is absent or
\* |twa| = 90, and they are never both non-zero.
C13_UpwindDownwind ==
    pc = "done" =>
        LET sog == args.trackPoint.sog
            twa == args.trackPoint.twa
        IN  /\ (Present(twa) /\ Abs(twa[1]) < 90)
                  => result.vmgUpwind = sog * CosE4(twa[1])
            /\ (Present(twa) /\ twa[1] = 0) => result.vmgUpwind = sog * 10000
            /\ ~(Present(twa) /\ Abs(twa[1]) < 90) => result.vmgUpwind = 0
            /\ (Present(twa) /\ Abs(twa[1]) > 90)
                  => result.vmgDownwind = sog * CosE4(180 - Abs(twa[1]))
            /\ ~(Present(twa) /\ Abs(twa[1]) > 90) => result.vmgDownwind = 0
            /\ ~(result.vmgUpwind # 0 /\ result.vmgDownwind # 0)

\* C14: targetAngle is 42 when twa is present with |twa| < 90 (twa = 0
\* included), 145 when twa is present with |twa| > 90, and always 42 or 145.
C14_TargetAngle ==
    pc = "done" =>
        LET twa == args.trackPoint.twa
        IN  /\ (Present(twa) /\ Abs(twa[1]) < 90) => result.targetAngle = 42
            /\ (Present(twa) /\ Abs(twa[1]) > 90) => result.targetAngle = 145
            /\ result.targetAngle \in {42, 145}

\* ------------------------------------------- calculateLaylines, projectLine

\* Most segments asked of projectLine when `points` is given.
MaxPoints == 3

\* Line 94: points defaults to 50.
DefaultPoints == 50

\* Line 68: tackingAngle defaults to 42.
DefaultTackingAngle == 42

\* Line 69: distance defaults to 500 (metres).
DefaultDistance == 500

OrDefault(opt, default) == IF opt = None THEN default ELSE opt[1]

\* Lines 101-119: the destination-point formula, kept as its arguments: the
\* position reached from (lat, lon) on bearing brng after dNum / dDen metres.
\* After 0 metres, sin(d/R) = 0 and the formula gives (lat, lon) itself on
\* every bearing; that position is written with bearing 0.
Destination(lat, lon, brng, dNum, dDen) ==
    IF dNum = 0
    THEN [lat |-> lat, lon |-> lon, brng |-> 0, dNum |-> 0, dDen |-> 1]
    ELSE [lat |-> lat, lon |-> lon, brng |-> brng, dNum |-> dNum, dDen |-> dDen]

projectLineExclusive(lat, lon, heading, distance, points) ==
    [k \in 1..points |-> Destination(lat, lon, heading, distance * (k - 1), points)]

\* Lines 89-123: for (i = 0; i <= points; i++), d = (distance * i) / points.
projectLine(lat, lon, heading, distance, points) ==
    [k \in 1..(points + 1) |->
        Destination(lat, lon, heading, distance * (k - 1), points)]

PortHeadingMinus(windDirection, tackingAngle) ==
    JsRem(windDirection - tackingAngle, 360)

\* Line 73.
PortHeading(windDirection, tackingAngle) ==
    JsRem(windDirection + tackingAngle, 360)

\* Line 77.
StarboardHeading(windDirection, tackingAngle) ==
    JsRem(windDirection - tackingAngle + 360, 360)

calculateLaylinesFromMark(currentLat, currentLon, markLat, markLon, windDirection, tackingAngle, distance) ==
    [port      |-> [points |-> projectLine(markLat, markLon,
                                  PortHeading(windDirection, tackingAngle),
                                  distance, DefaultPoints),
                    tack |-> "port"],
     starboard |-> [points |-> projectLine(markLat, markLon,
                                  StarboardHeading(windDirection, tackingAngle),
                                  distance, DefaultPoints),
                    tack |-> "starboard"]]

\* Lines 62-84, the defaults applied.
calculateLaylines(currentLat, currentLon, markLat, markLon, windDirection, tackingAngle, distance) ==
    [port      |-> [points |-> projectLine(currentLat, currentLon,
                                  PortHeading(windDirection, tackingAngle),
                                  distance, DefaultPoints),
                    tack |-> "port"],
     starboard |-> [points |-> projectLine(currentLat, currentLon,
                                  StarboardHeading(windDirection, tackingAngle),
                                  distance, DefaultPoints),
                    tack |-> "starboard"]]

LaylinesCall ==
    /\ pc = "calculateLaylines"
    /\ result' = calculateLaylines(args.currentLat, args.currentLon,
                                   args.markLat, args.markLon, args.windDirection,
                                   OrDefault(args.tackingAngle, DefaultTackingAngle),
                                   OrDefault(args.distance, DefaultDistance))
    /\ pc' = "done"
    /\ UNCHANGED <<trackPoints, thresholdDegrees, i, tacks, tackIdx, shifts, shiftIdx, args, replayVars>>

ProjectCall ==
    /\ pc = "projectLine"
    /\ result' = projectLine(args.lat, args.lon, args.heading, args.distance,
                             OrDefault(args.points, DefaultPoints))
    /\ pc' = "done"
    /\ UNCHANGED <<trackPoints, thresholdDegrees, i, tacks, tackIdx, shifts, shiftIdx, args, replayVars>>

\* ---- inputs of calculateLaylines and projectLine

\* Positions, in micro-degrees.
Positions == {[lat |-> 0, lon |-> 0], [lat |-> 50000000, lon |-> -1000000]}
Marks == {[lat |-> 0, lon |-> 0], [lat |-> 4000, lon |-> 0], [lat |-> 50004000, lon |-> -1003000]}
LaylineWinds == {0, 10, 350}
LaylineAngles == {None, Some(0), Some(42), Some(180)}
LaylineDistances == {None, Some(100)}
ProjectHeadings == {0, 42, 318}
ProjectDistances == {0, 100, 500}

LaylineArgs(cur, mark, w, t, dist) ==
    [fn |-> "calculateLaylines",
     currentLat |-> cur.lat, currentLon |-> cur.lon,
     markLat |-> mark.lat, markLon |-> mark.lon,
     windDirection |-> w, tackingAngle |-> t, distance |-> dist]

\* Every wind direction of [0, 360) with every tacking angle of [0, 180] from
\* one position; a few winds and angles (given or defaulted) from every
\* position toward every mark; and projectLine on its own.
InitLaylines ==
    /\ \/ /\ pc = "calculateLaylines"
          /\ \/ \E w \in 0..359, t \in 0..180 :
                   args = LaylineArgs([lat |-> 0, lon |-> 0], [lat |-> 4000, lon |-> 0],
                                      w, Some(t), None)
             \/ \E cur \in Positions, mark \in Marks, w \in LaylineWinds,
                   t \in LaylineAngles, dist \in LaylineDistances :
                   args = LaylineArgs(cur, mark, w, t, dist)
       \/ /\ pc = "projectLine"
          /\ \E cur \in Positions, h \in ProjectHeadings, dist \in ProjectDistances :
                \E pts \in {None} \cup { Some(n) : n \in 1..MaxPoints } :
                   args = [fn |-> "projectLine", lat |-> cur.lat, lon |-> cur.lon,
                           heading |-> h, distance |-> dist, points |-> pts]
    /\ trackPoints = <<>>
    /\ thresholdDegrees = 0
    /\ i = 0
    /\ tacks = <<>>
    /\ tackIdx = <<>>
    /\ shifts = <<>>
    /\ shiftIdx = <<>>
    /\ result = <<>>
    /\ ReplayAtMount

NextLaylines == LaylinesCall \/ ProjectCall

SpecLaylines == InitLaylines /\ [][NextLaylines]_vars

\* ---- claims about calculateLaylines and projectLine

\* C15: for W in [0, 360) and T in [0, 180] the port layline is projected along
\* (W + T) mod 360 and the starboard layline along (W - T + 360) mod 360, both
\* in [0, 360), and port minus starboard is congruent to 2T modulo 360.
C15_LaylineHeadings ==
    (pc = "done" /\ args.fn = "calculateLaylines") =>
        LET W == args.windDirection
            T == OrDefault(args.tackingAngle, DefaultTackingAngle)
            port == result.port.points
            starboard == result.starboard.points
        IN  /\ \A k \in 2..Len(port) : port[k].brng = (W + T) % 360
            /\ \A k \in 2..Len(starboard) : starboard[k].brng = (W - T + 360) % 360
            /\ port[2].brng \in 0..359 /\ starboard[2].brng \in 0..359
            /\ (port[2].brng - starboard[2].brng - 2 * T) % 360 = 0
            /\ result.port.tack = "port" /\ result.starboard.tack = "starboard"

\* Wind 350 and tacking angle 42: port wraps to 32, starboard is 308.
C15_Witness ==
    /\ pc = "done"
    /\ args.fn = "calculateLaylines"
    /\ args.windDirection = 350 /\ args.tackingAngle = Some(42)
    /\ result.port.points[2].brng = 32
    /\ result.starboard.points[2].brng = 308

\* The polyline has s + 1 positions from the origin, the k-th (from 0) at
\* distance * k / s along the heading.
EvenlySpaced(line, lat, lon, heading, distance, s) ==
    /\ Len(line) = s + 1
    /\ \A k \in 0..s :
          LET pt == At(line, k)
          IN  /\ pt.lat = lat /\ pt.lon = lon
              /\ pt.dNum * s = distance * k * pt.dDen
              /\ pt.dDen > 0
              /\ (pt.dNum # 0 => pt.brng = heading)
    /\ At(line, 0) = Destination(lat, lon, 0, 0, 1)
    /\ At(line, s).dNum = distance * At(line, s).dDen

\* C16: projectLine with points = s >= 1 returns s + 1 positions, the k-th at
\* distance * k / s from the origin along the heading (the first the origin,
\* the last at the full distance); calculateLaylines with defaults returns 51
\* positions on each layline, both starting at the current position.
C16_ProjectedPoints ==
    /\ (pc = "done" /\ args.fn = "projectLine") =>
          EvenlySpaced(result, args.lat, args.lon, args.heading, args.distance,
                       OrDefault(args.points, DefaultPoints))
    /\ (pc = "done" /\ args.fn = "calculateLaylines") =>
          LET dist == OrDefault(args.distance, DefaultDistance)
          IN  /\ Len(result.port.points) = 51
              /\ Len(result.starboard.points) = 51
              /\ result.port.points[1] = result.starboard.points[1]
              /\ result.port.points[1].lat = args.currentLat
              /\ result.port.points[1].lon = args.currentLon
              /\ result.port.points[1].dNum = 0
              /\ result.port.points[51].dNum = dist * result.port.points[51].dDen
              /\ result.starboard.points[51].dNum
                    = dist * result.starboard.points[51].dDen

\* projectLine asked for 3 segments of a 100 m line: 4 positions, the last at
\* 100 m.
C16_Witness ==
    /\ pc = "done"
    /\ args.fn = "projectLine"
    /\ args.points = Some(3) /\ args.distance = 100 /\ args.heading = 42
    /\ Len(result) = 4
    /\ result[2].dNum = 100 /\ result[2].dDen = 3
    /\ result[4].dNum = 300 /\ result[4].dDen = 3

\* C18: the layline pair does not depend on the mark: the call returns what it
\* returns for any other mark position, all else equal.
C18_MarkIgnored ==
    (pc = "done" /\ args.fn = "calculateLaylines") =>
        \A mark \in Marks :
            result = calculateLaylines(args.currentLat, args.currentLon,
                                       mark.lat, mark.lon, args.windDirection,
                                       OrDefault(args.tackingAngle, DefaultTackingAngle),
                                       OrDefault(args.distance, DefaultDistance))

\* A call toward a mark that is not at the current position.
C18_Witness ==
    /\ pc = "done"
    /\ args.fn = "calculateLaylines"
    /\ args.currentLat = 50000000 /\ args.markLat = 4000
    /\ result.port.points[1].lat = 50000000

\* ------------------------------------------------ calculateDistance, alone

\* Largest coordinate tried, in tens of micro-degrees either side of 0.
MaxCoord == 5

DistanceCall ==
    /\ pc = "calculateDistance"
    /\ result' = calculateDistance(args.lat1, args.lon1, args.lat2, args.lon2)
    /\ pc' = "done"
    /\ UNCHANGED <<trackPoints, thresholdDegrees, i, tacks, tackIdx, shifts, shiftIdx, args, replayVars>>

Coords == { 10 * c : c \in -MaxCoord..MaxCoord }

DistanceArgs(lat1, lon1, lat2, lon2) ==
    [fn |-> "calculateDistance", lat1 |-> lat1, lon1 |-> lon1,
     lat2 |-> lat2, lon2 |-> lon2]

\* Two points of the meridian lon = 0, or two points of the equator.
InitDistance ==
    /\ pc = "calculateDistance"
    /\ \E a \in Coords, b \in Coords :
          \/ args = DistanceArgs(a, 0, b, 0)
          \/ args = DistanceArgs(0, a, 0, b)
    /\ trackPoints = <<>>
    /\ thresholdDegrees = 0
    /\ i = 0
    /\ tacks = <<>>
    /\ tackIdx = <<>>
    /\ shifts = <<>>
    /\ shiftIdx = <<>>
    /\ result = <<>>
    /\ ReplayAtMount

NextDistance == DistanceCall

SpecDistance == InitDistance /\ [][NextDistance]_vars

InitDetectors == InitTacks \/ InitShifts

NextDetectors == NextTacks \/ NextShifts

SpecDetectors == InitDetectors /\ [][NextDetectors]_vars

Absent(opt) == opt = None

\* C17: a sample lacking twa never makes detectTacks or detectWindShifts fail or
\* stop: the loop can always take its next step and returns only at the end of
\* the track; a pair that involves a sample without twa produces no event; and
\* every pair of two present values is decided by those two values alone.
C17_MissingTwaSkipped ==
    /\ pc = "detectTacks" =>
          /\ ENABLED NextTacks
          /\ \A j \in TackProcessed :
                /\ j < Len(trackPoints)
                /\ (Absent(TwaAt(j)) \/ Absent(TwaAt(j - 1))) => j \notin Range(tackIdx)
                /\ (Present(TwaAt(j)) /\ Present(TwaAt(j - 1))) =>
                      (j \in Range(tackIdx) <=>
                          Sign(TwaAt(j - 1)[1]) * Sign(TwaAt(j)[1]) = -1)
    /\ pc = "detectWindShifts" =>
          /\ ENABLED NextShifts
          /\ \A j \in ShiftProcessed :
                /\ j < Len(trackPoints)
                /\ (Absent(TwaAt(j)) \/ Absent(TwaAt(j - Lag))) => j \notin Range(shiftIdx)
                /\ (Present(TwaAt(j)) /\ Present(TwaAt(j - Lag))) =>
                      (j \in Range(shiftIdx) <=>
                          /\ TwaAt(j)[1] # 0 /\ TwaAt(j - Lag)[1] # 0
                          /\ Abs(TwaAt(j)[1] - TwaAt(j - Lag)[1]) > thresholdDegrees)
    /\ pc = "done" => i >= Len(trackPoints)

\* detectTacks at the end of a three-fix track whose first fix has no twa: the
\* pair (0, 1) gave nothing and the pair (1, 2) gave its event.
C17_Witness ==
    /\ pc = "detectTacks"
    /\ Len(trackPoints) = 3 /\ i = 3
    /\ Absent(TwaAt(0)) /\ TwaAt(1) = Some(5) /\ TwaAt(2) = Some(-5)
    /\ tackIdx = <<2>>

\* ------------------------------------------------- calls, side by side

\* Two activations of the analytics run at once over one track, their steps
\* interleaved in any order, each called again after it has returned.  In this
\* specification pc, args and result are functions of the activation, and so
\* are the locals i, tacks and shifts of the detectors.

Calls == {"first", "second"}

\* Longest track the detectors are run on side by side.
MaxCallLen == 6

ArrayOfFirst(c) == "first"

\* Lines 129 and 281: the array under construction is a const declared in the
\* function body, so each activation has its own.
ArrayOf(c) == c

\* Lines 128-167 as a function: the events of iterations 1..k, in order.
RECURSIVE detectTacksUpTo(_, _)
detectTacksUpTo(points, k) ==
    IF k < 1
    THEN <<>>
    ELSE LET current == At(points, k)
             prev == At(points, k - 1)
             before == detectTacksUpTo(points, k - 1)
         IN  IF ~TackSkipped(prev, current) /\ TackDetected(prev, current)
             THEN Append(before, TackEvent(prev, current))
             ELSE before

detectTacks(points) == detectTacksUpTo(points, Len(points) - 1)

\* Lines 277-301 as a function: the events of iterations Lag..k, in order.
RECURSIVE detectWindShiftsUpTo(_, _, _)
detectWindShiftsUpTo(points, threshold, k) ==
    IF k < Lag
    THEN <<>>
    ELSE LET current == At(points, k)
             previous == At(points, k - Lag)
             before == detectWindShiftsUpTo(points, threshold, k - 1)
         IN  IF ~ShiftSkipped(previous, current)
                /\ Abs(ShiftOf(previous, current)) > threshold
             THEN Append(before, ShiftEvent(current, ShiftOf(previous, current)))
             ELSE before

detectWindShifts(points, threshold) ==
    detectWindShiftsUpTo(points, threshold, Len(points) - 1)

IsDetector(fn) == fn \in {"detectTacks", "detectWindShifts"}

\* The analytics that are one expression of their arguments.
Apply(a) ==
    CASE a.fn = "calculateVMG" ->
            calculateVMG(a.trackPoint, a.targetHeading)
      [] a.fn = "calculateLaylines" ->
            calculateLaylines(a.currentLat, a.currentLon, a.markLat, a.markLon,
                              a.windDirection,
                              OrDefault(a.tackingAngle, DefaultTackingAngle),
                              OrDefault(a.distance, DefaultDistance))
      [] a.fn = "calculateStartLineBias" ->
            calculateStartLineBias(a.bearing, a.windDirection)
      [] a.fn = "calculatePerformance" ->
            calculatePerformance(a.actualSpeed, a.windSpeed, a.windAngle, a.polarData)

\* Lines 129-132 and 281-283: the locals at function entry.
CallEnter(c) ==
    /\ pc[c] = "called"
    /\ IsDetector(args[c].fn)
    /\ pc' = [pc EXCEPT ![c] = "loop"]
    /\ IF args[c].fn = "detectTacks"
       THEN /\ tacks' = [tacks EXCEPT ![ArrayOf(c)] = <<>>]
            /\ i' = [i EXCEPT ![c] = 1]
            /\ UNCHANGED shifts
       ELSE /\ shifts' = [shifts EXCEPT ![ArrayOf(c)] = <<>>]
            /\ i' = [i EXCEPT ![c] = Lag]
            /\ UNCHANGED tacks
    /\ UNCHANGED <<trackPoints, thresholdDegrees, tackIdx, shiftIdx, args, result, replayVars>>

\* One iteration of the loop of lines 132-164 in activation c.
CallTackIter(c) ==
    /\ pc[c] = "loop"
    /\ args[c].fn = "detectTacks"
    /\ i[c] < Len(trackPoints)
    /\ LET current == At(trackPoints, i[c])
           prev == At(trackPoints, i[c] - 1)
       IN  IF ~TackSkipped(prev, current) /\ TackDetected(prev, current)
           THEN tacks' = [tacks EXCEPT ![ArrayOf(c)] =
                              Append(@, TackEvent(prev, current))]
           ELSE UNCHANGED tacks
    /\ i' = [i EXCEPT ![c] = @ + 1]
    /\ UNCHANGED <<pc, trackPoints, thresholdDegrees, tackIdx, shifts, shiftIdx,
                   args, result, replayVars>>

\* One iteration of the loop of lines 283-298 in activation c.
CallShiftIter(c) ==
    /\ pc[c] = "loop"
    /\ args[c].fn = "detectWindShifts"
    /\ i[c] < Len(trackPoints)
    /\ LET current == At(trackPoints, i[c])
           previous == At(trackPoints, i[c] - Lag)
       IN  IF ~ShiftSkipped(previous, current)
              /\ Abs(ShiftOf(previous, current)) > thresholdDegrees
           THEN shifts' = [shifts EXCEPT ![ArrayOf(c)] =
                               Append(@, ShiftEvent(current, ShiftOf(previous, current)))]
           ELSE UNCHANGED shifts
    /\ i' = [i EXCEPT ![c] = @ + 1]
    /\ UNCHANGED <<pc, trackPoints, thresholdDegrees, tacks, tackIdx, shiftIdx,
                   args, result, replayVars>>

\* Lines 166 and 300.
CallReturn(c) ==
    /\ pc[c] = "loop"
    /\ ~(i[c] < Len(trackPoints))
    /\ pc' = [pc EXCEPT ![c] = "returned"]
    /\ result' = [result EXCEPT ![c] = IF args[c].fn = "detectTacks"
                                       THEN tacks[ArrayOf(c)]
                                       ELSE shifts[ArrayOf(c)]]
    /\ UNCHANGED <<trackPoints, thresholdDegrees, i, tacks, tackIdx, shifts,
                   shiftIdx, args, replayVars>>

\* calculateVMG, calculateLaylines, calculateStartLineBias, calculatePerformance.
CallOneShot(c) ==
    /\ pc[c] = "called"
    /\ ~IsDetector(args[c].fn)
    /\ pc' = [pc EXCEPT ![c] = "returned"]
    /\ result' = [result EXCEPT ![c] = Apply(args[c])]
    /\ UNCHANGED <<trackPoints, thresholdDegrees, i, tacks, tackIdx, shifts,
                   shiftIdx, args, replayVars>>

\* The caller makes the same call once more.
CallAgain(c) ==
    /\ pc[c] = "returned"
    /\ pc' = [pc EXCEPT ![c] = "called"]
    /\ result' = [result EXCEPT ![c] = <<>>]
    /\ UNCHANGED <<trackPoints, thresholdDegrees, i, tacks, tackIdx, shifts,
                   shiftIdx, args, replayVars>>

\* ---- inputs of the calls

CallTwaVals == {None, Some(-5), Some(6)}

CallArgs ==
    { [fn |-> "detectTacks"],
      [fn |-> "detectWindShifts"],
      [fn |-> "calculateVMG", trackPoint |-> VmgPoint(6, 90, Some(-5)),
       targetHeading |-> 0],
      LaylineArgs([lat |-> 0, lon |-> 0], [lat |-> 4000, lon |-> 0], 10, None, None),
      [fn |-> "calculateStartLineBias", bearing |-> 90, windDirection |-> 10],
      [fn |-> "calculatePerformance", actualSpeed |-> 6, windSpeed |-> 7,
       windAngle |-> 60,
       polarData |-> Some([tws |-> <<5, 10>>, twa |-> <<45, 90>>,
                           target |-> Grid(2, 2, FALSE)])] }

InitCalls ==
    /\ pc = [c \in Calls |-> "called"]
    /\ \E a \in [Calls -> CallArgs] : args = a
    /\ \E n \in 0..MaxCallLen : \E twa \in [1..n -> CallTwaVals] :
          trackPoints = ShiftTrack(n, twa)
    /\ thresholdDegrees = DefaultThreshold
    /\ i = [c \in Calls |-> 0]
    /\ tacks = [c \in Calls |-> <<>>]
    /\ tackIdx = <<>>
    /\ shifts = [c \in Calls |-> <<>>]
    /\ shiftIdx = <<>>
    /\ result = [c \in Calls |-> <<>>]
    /\ ReplayAtMount

NextCalls ==
    \E c \in Calls :
       \/ CallEnter(c)
       \/ CallTackIter(c)
       \/ CallShiftIter(c)
       \/ CallReturn(c)
       \/ CallOneShot(c)
       \/ CallAgain(c)

SpecCalls == InitCalls /\ [][NextCalls]_vars

\* What the call with arguments a returns when nothing else runs.
RunAlone(a) ==
    IF a.fn = "detectTacks" THEN detectTacks(trackPoints)
    ELSE IF a.fn = "detectWindShifts" THEN detectWindShifts(trackPoints, thresholdDegrees)
    ELSE Apply(a)

ResultsAsAlone ==
    /\ \A c \in Calls : pc[c] = "returned" => result[c] = RunAlone(args[c])
    /\ \A c \in Calls, d \in Calls :
          (pc[c] = "returned" /\ pc[d] = "returned" /\ args[c] = args[d])
             => result[c] = result[d]

InputsUnchanged ==
    /\ trackPoints' = trackPoints
    /\ thresholdDegrees' = thresholdDegrees
    /\ args' = args

\* C19: every analytic is deterministic and keeps no state between calls: no
\* step of a call changes the input samples or the polar table, a call
\* returns what it returns when run alone however the steps of another call
\* are interleaved with its own and however often it was made before, and two
\* calls on equal inputs return equal results.
C19_Stateless == []ResultsAsAlone /\ [][InputsUnchanged]_vars

\* Both detectors have returned their events of one track, run side by side.
C19_Witness ==
    /\ pc["first"] = "returned" /\ pc["second"] = "returned"
    /\ args["first"].fn = "detectTacks" /\ args["second"].fn = "detectWindShifts"
    /\ Len(result["first"]) = 2
    /\ Len(result["second"]) = 1
    /\ tacks["second"] = <<>>

\* ------------------------------------------- the events of detectTacks

\* The tracks of InitTacks have non-decreasing timestamps (DtVals) and
\* sog >= 0 (SogVals), duplicate timestamps and zero speeds included.

InUnitRange(e) == ~e.nan /\ 0 <= e.num /\ e.num <= 100 * e.den

\* C21: every event returned by detectTacks, for non-decreasing timestamps and
\* sog >= 0, has an efficiency that is a number within [0, 100].
C21_EfficiencyInRange ==
    pc \in {"detectTacks", "done"} =>
        \A k \in 1..Len(tacks) : InUnitRange(tacks[k].efficiency)

\* The pair of samples that produced the k-th event.
PrevOfEvent(k) == At(trackPoints, tackIdx[k] - 1)
CurrentOfEvent(k) == At(trackPoints, tackIdx[k])

\* C22: the events are in input order, one per crossing: they correspond to a
\* strictly increasing sequence of sample indexes of 1..n-1, each carries the
\* timestamp and position of the later sample of its pair, there are at most
\* n-1 of them (none for n <= 1), and the call returns them as they are.
C22_EventsInOrder ==
    pc \in {"detectTacks", "done"} =>
        /\ Len(tacks) = Len(tackIdx)
        /\ \A k \in 1..Len(tacks) :
              /\ tackIdx[k] \in 1..(Len(trackPoints) - 1)
              /\ k > 1 => tackIdx[k - 1] < tackIdx[k]
              /\ tacks[k].timestamp = CurrentOfEvent(k).ts
              /\ tacks[k].lat = CurrentOfEvent(k).lat
              /\ tacks[k].lon = CurrentOfEvent(k).lon
        /\ Len(trackPoints) <= 1 => Len(tacks) = 0
        /\ Len(trackPoints) >= 1 => Len(tacks) <= Len(trackPoints) - 1
        /\ pc = "done" => result = tacks

\* Three fixes, a crossing at each pair, the boat moving: two events, the
\* second later and further north than the first.
C22_Witness ==
    /\ pc = "done"
    /\ Len(trackPoints) = 3
    /\ tackIdx = <<1, 2>>
    /\ Len(result) = 2
    /\ result[1].timestamp < result[2].timestamp
    /\ result[1].lat < result[2].lat

\* C23: for the event of the pair (i-1, i), timeInIrons is
\* timestamp[i] - timestamp[i-1] in seconds and is >= 0; the expected distance
\* is mean(sog[i-1], sog[i]) * 0.514444 * timeInIrons; and lostDistance plus
\* the distance between the two fixes is that expected distance.
C23_EventArithmetic ==
    pc \in {"detectTacks", "done"} =>
        \A k \in 1..Len(tacks) :
            LET prev == PrevOfEvent(k)
                current == CurrentOfEvent(k)
                actual == calculateDistance(prev.lat, prev.lon, current.lat, current.lon)
            IN  /\ tacks[k].timeInIrons = current.ts - prev.ts
                /\ tacks[k].timeInIrons >= 0
                /\ 2 * (tacks[k].lostDistance + actual) =
                      (prev.sog + current.sog) * KnotsToUmPerSec * tacks[k].timeInIrons

\* A crossing between two fixes one second and 20 micro-degrees apart, logged
\* at 0 knots: the boat covered more than expected and lostDistance is negative.
C23_Witness ==
    /\ pc = "done"
    /\ Len(result) = 1
    /\ result[1].timeInIrons = 1
    /\ result[1].lostDistance = -(20 * UmPerMicroDeg)

\* ------------------------------------------------------- no look-ahead

IsPrefix(p, q) == Len(p) <= Len(q) /\ SubSeq(q, 1, Len(p)) = p

\* The first m samples of the track.
Prefix(m) == SubSeq(trackPoints, 1, m)

\* The samples the loop has had in hand when its index is i.
Seen == IF i < Len(trackPoints) THEN i ELSE Len(trackPoints)

\* C24: neither detector looks ahead.  On every prefix P of the track S,
\* detectTacks(P) is a prefix of detectTacks(S) and detectWindShifts(P, t) a
\* prefix of detectWindShifts(S, t); the array the loop has built when it has
\* seen m samples is already the result on those m samples, and the call
\* returns the result on S; the event of index j is a function of samples j-1
\* and j (maneuvers) or j-5 and j (wind shifts) alone.
C24_NoLookAhead ==
    /\ pc = "detectTacks" =>
          /\ tacks = detectTacks(Prefix(Seen))
          /\ \A m \in 0..Len(trackPoints) :
                IsPrefix(detectTacks(Prefix(m)), detectTacks(trackPoints))
          /\ \A k \in 1..Len(tacks) :
                tacks[k] = TackEvent(PrevOfEvent(k), CurrentOfEvent(k))
    /\ pc = "detectWindShifts" =>
          /\ shifts = detectWindShifts(Prefix(Seen), thresholdDegrees)
          /\ \A m \in 0..Len(trackPoints) :
                IsPrefix(detectWindShifts(Prefix(m), thresholdDegrees),
                         detectWindShifts(trackPoints, thresholdDegrees))
          /\ \A k \in 1..Len(shifts) :
                LET current == At(trackPoints, shiftIdx[k])
                    previous == At(trackPoints, shiftIdx[k] - Lag)
                IN  shifts[k] = ShiftEvent(current, ShiftOf(previous, current))
    /\ pc = "done" =>
          \/ result = tacks /\ tacks = detectTacks(trackPoints) /\ shifts = <<>>
          \/ /\ result = shifts
             /\ shifts = detectWindShifts(trackPoints, thresholdDegrees)
             /\ tacks = <<>>

\* detectTacks half way through three fixes with a crossing at each pair: one
\* event so far, two on the whole track.
C24_Witness ==
    /\ pc = "detectTacks"
    /\ Len(trackPoints) = 3
    /\ i = 2
    /\ Len(tacks) = 1
    /\ Len(detectTacks(trackPoints)) = 2

\* ------------------------------- calculateStartLineBias, from the two ends

\* Math.atan2(y, x) in degrees, from the signs of y and x, where one of them
\* is 0: atan2(0, x) is 0 for x >= 0 and 180 for x < 0; atan2(y, 0) is 90 or -90.
Atan2Deg(y, x) ==
    IF y = 0
    THEN IF x < 0 THEN 180 ELSE 0
    ELSE 90 * y

BearingFromBoat(pinLat, pinLon, boatLat, boatLon) ==
    LET dLon == pinLon - boatLon
        y == Sign(dLon)
        x == IF dLon = 0 THEN Sign(pinLat - boatLat) ELSE 0
    IN  Atan2Deg(y, x)

\* Lines 201-208, up to Math.atan2(y, x) * 180 / Math.PI, for two ends of one
\* meridian or of the equator, less than 180 degrees apart.  One meridian:
\* dLon = 0, so y = 0 and x = sin(lat2 - lat1).  The equator: lat1 = lat2 = 0,
\* so y = sin(dLon) and x = 0.  Only the signs of y and x matter.
Bearing(pinLat, pinLon, boatLat, boatLon) ==
    LET dLon == boatLon - pinLon
        y == Sign(dLon)
        x == IF dLon = 0 THEN Sign(boatLat - pinLat) ELSE 0
    IN  Atan2Deg(y, x)

LineCall ==
    /\ pc = "calculateStartLineBias"
    /\ result' = calculateStartLineBias(
                     Bearing(args.pinLat, args.pinLon, args.boatLat, args.boatLon),
                     args.windDirection)
    /\ pc' = "done"
    /\ UNCHANGED <<trackPoints, thresholdDegrees, i, tacks, tackIdx, shifts, shiftIdx, args, replayVars>>

LineWinds == {0, 90, 225}

LineArgs(pinLat, pinLon, boatLat, boatLon, w) ==
    [pinLat |-> pinLat, pinLon |-> pinLon, boatLat |-> boatLat,
     boatLon |-> boatLon, windDirection |-> w]

\* The two ends on the meridian lon = 0, or on the equator.
InitLine ==
    /\ pc = "calculateStartLineBias"
    /\ \E a \in Coords, b \in Coords, w \in LineWinds :
          \/ args = LineArgs(a, 0, b, 0, w)
          \/ args = LineArgs(0, a, 0, b, w)
    /\ trackPoints = <<>>
    /\ thresholdDegrees = 0
    /\ i = 0
    /\ tacks = <<>>
    /\ tackIdx = <<>>
    /\ shifts = <<>>
    /\ shiftIdx = <<>>
    /\ result = <<>>
    /\ ReplayAtMount

NextLine == LineCall

SpecLine == InitLine /\ [][NextLine]_vars

\* The compass course from the pin end to the boat end: north 0, east 90,
\* south 180, west 270 (0 when the ends coincide).
CompassToBoat ==
    IF args.boatLon > args.pinLon THEN 90
    ELSE IF args.boatLon < args.pinLon THEN 270
    ELSE IF args.boatLat < args.pinLat THEN 180
    ELSE 0

SameEnds == args.pinLat = args.boatLat /\ args.pinLon = args.boatLon

SwappedLineHeading ==
    calculateStartLineBias(
        Bearing(args.boatLat, args.boatLon, args.pinLat, args.pinLon),
        args.windDirection).lineHeading

\* C25: the lineHeading returned is the initial bearing from the pin end to
\* the boat end and lies in [0, 360); with pin and boat swapped the call
\* returns the bearing in the opposite sense.
C25_LineHeading ==
    pc = "done" =>
        /\ result.lineHeading = CompassToBoat
        /\ result.lineHeading >= 0 /\ result.lineHeading < 360
        /\ ~SameEnds => SwappedLineHeading = (result.lineHeading + 180) % 360

\* The boat end due west of the pin end: atan2 gives -90, the heading is 270
\* and, the ends swapped, 90.
C25_Witness ==
    /\ pc = "done"
    /\ args.pinLat = 0 /\ args.boatLat = 0
    /\ args.pinLon = 20 /\ args.boatLon = -30
    /\ result.lineHeading = 270
    /\ SwappedLineHeading = 90

\* --------------------------------------------- metres and kilometres

DistanceKmCall ==
    /\ pc = "calculateDistanceKm"
    /\ result' = calculateDistanceKm(args.lat1, args.lon1, args.lat2, args.lon2)
    /\ pc' = "done"
    /\ UNCHANGED <<trackPoints, thresholdDegrees, i, tacks, tackIdx, shifts, shiftIdx, args, replayVars>>

\* Whole milli-degrees, in micro-degrees.
MilliCoords == { 1000 * c : c \in -MaxCoord..MaxCoord }

DistanceKmArgs(lat1, lon1, lat2, lon2) ==
    [fn |-> "calculateDistanceKm", lat1 |-> lat1, lon1 |-> lon1,
     lat2 |-> lat2, lon2 |-> lon2]

\* Either haversine function on two points of the meridian lon = 0 or of the
\* equator, or detectTacks on a track.
InitUnits ==
    \/ /\ \E a \in MilliCoords, b \in MilliCoords :
             \/ pc = "calculateDistance" /\ args = DistanceArgs(a, 0, b, 0)
             \/ pc = "calculateDistance" /\ args = DistanceArgs(0, a, 0, b)
             \/ pc = "calculateDistanceKm" /\ args = DistanceKmArgs(a, 0, b, 0)
             \/ pc = "calculateDistanceKm" /\ args = DistanceKmArgs(0, a, 0, b)
       /\ trackPoints = <<>>
       /\ thresholdDegrees = 0
       /\ i = 0
       /\ tacks = <<>>
       /\ tackIdx = <<>>
       /\ shifts = <<>>
       /\ shiftIdx = <<>>
       /\ result = <<>>
       /\ ReplayAtMount
    \/ InitTacks

NextUnits == DistanceCall \/ DistanceKmCall \/ NextTacks

SpecUnits == InitUnits /\ [][NextUnits]_vars

Returned(fn) == pc = "done" /\ args # <<>> /\ args.fn = fn

\* C26: the two haversine functions agree up to the unit: the metre result is
\* 1000 times the kilometre result on the same two points (micrometres
\* against micro-kilometres here), and detectTacks takes the actual distance
\* from the metre variant, the unit of its expected distance.
C26_SameUpToUnit ==
    /\ Returned("calculateDistance") =>
          result = 1000 * calculateDistanceKm(args.lat1, args.lon1, args.lat2, args.lon2)
    /\ Returned("calculateDistanceKm") =>
          1000 * result = calculateDistance(args.lat1, args.lon1, args.lat2, args.lon2)
    /\ (pc \in {"detectTacks", "done"} /\ args = <<>>) =>
          \A k \in 1..Len(tacks) :
              LET prev == PrevOfEvent(k)
                  current == CurrentOfEvent(k)
                  metres == calculateDistance(prev.lat, prev.lon, current.lat, current.lon)
              IN  /\ tacks[k].lostDistance = ExpectedDistance(prev, current) - metres
                  /\ tacks[k].efficiency = Efficiency(metres, ExpectedDistance(prev, current))

\* Three milli-degrees of latitude: 0.333585 km.
C26_Witness ==
    /\ Returned("calculateDistanceKm")
    /\ args.lat1 = -1000 /\ args.lat2 = 2000 /\ args.lon1 = 0 /\ args.lon2 = 0
    /\ result = 333585

\* ------------------------------------------------ a twa of 0, a twa absent

InitTwaZero == InitTacks \/ InitShifts \/ InitVmg

NextTwaZero == NextTacks \/ NextShifts \/ NextVmg

SpecTwaZero == InitTwaZero /\ [][NextTwaZero]_vars

\* The sample with its twa, where 0 or absent, made absent; and made 0.
ZeroAsAbsent(p) == IF p.twa = Some(0) THEN [p EXCEPT !.twa = None] ELSE p
AbsentAsZero(p) == IF p.twa = None THEN [p EXCEPT !.twa = Some(0)] ELSE p

AllZeroAsAbsent(points) == [k \in 1..Len(points) |-> ZeroAsAbsent(points[k])]
AllAbsentAsZero(points) == [k \in 1..Len(points) |-> AbsentAsZero(points[k])]

\* C27: detectTacks, detectWindShifts and calculateVMG handle a twa of exactly
\* 0 as they handle an absent twa: what the call has computed is what it
\* computes on the input with every 0 made absent, and on the input with every
\* absent twa made 0 (so on any input between the two).
C27_ZeroAsAbsent ==
    /\ pc = "detectTacks" =>
          /\ tacks = detectTacks(AllZeroAsAbsent(Prefix(Seen)))
          /\ tacks = detectTacks(AllAbsentAsZero(Prefix(Seen)))
    /\ pc = "detectWindShifts" =>
          /\ shifts = detectWindShifts(AllZeroAsAbsent(Prefix(Seen)), thresholdDegrees)
          /\ shifts = detectWindShifts(AllAbsentAsZero(Prefix(Seen)), thresholdDegrees)
    /\ (pc = "done" /\ args = <<>>) =>
          \/ /\ shifts = <<>>
             /\ result = detectTacks(AllZeroAsAbsent(trackPoints))
             /\ result = detectTacks(AllAbsentAsZero(trackPoints))
          \/ /\ tacks = <<>>
             /\ result = detectWindShifts(AllZeroAsAbsent(trackPoints), thresholdDegrees)
             /\ result = detectWindShifts(AllAbsentAsZero(trackPoints), thresholdDegrees)
    /\ (pc = "done" /\ args # <<>>) =>
          /\ result = calculateVMG(ZeroAsAbsent(args.trackPoint), args.targetHeading)
          /\ result = calculateVMG(AbsentAsZero(args.trackPoint), args.targetHeading)

\* calculateVMG at 6 knots with a twa of 0: no upwind VMG and the downwind
\* target angle, as without wind data.
C27_Witness ==
    /\ pc = "done" /\ args # <<>>
    /\ args.trackPoint.twa = Some(0)
    /\ args.trackPoint.sog = 6
    /\ result.vmgUpwind = 0
    /\ result.targetAngle = 145

\* ------------------------------------------------- a gap in the wind data

\* Samples a < b with twa of opposite signs and nothing but samples lacking
\* twa between them.
CrossingOverGap(a, b) ==
    /\ b >= a + 2
    /\ Present(TwaAt(a)) /\ Present(TwaAt(b))
    /\ Sign(TwaAt(a)[1]) * Sign(TwaAt(b)[1]) = -1
    /\ \A k \in (a + 1)..(b - 1) : Absent(TwaAt(k))

\* C28: detectTacks compares only index-adjacent samples and remembers no wind
\* side across a gap: every event comes from two adjacent samples that both
\* have twa, and when two samples of opposite twa signs are separated by
\* samples lacking twa, no index from the gap to the later sample has an event.
C28_NoEventAcrossGap ==
    pc \in {"detectTacks", "done"} =>
        /\ \A k \in 1..Len(tackIdx) :
              Present(PrevOfEvent(k).twa) /\ Present(CurrentOfEvent(k).twa)
        /\ \A a \in 0..(Len(trackPoints) - 1), b \in 0..(Len(trackPoints) - 1) :
              CrossingOverGap(a, b) =>
                  \A j \in (a + 1)..b : j \notin Range(tackIdx)
        /\ pc = "done" => Len(result) = Len(tackIdx)

\* twa = [-5, absent, 5]: the call has returned no event.
C28_Witness ==
    /\ pc = "done"
    /\ Len(trackPoints) = 3
    /\ TwaAt(0) = Some(-5) /\ Absent(TwaAt(1)) /\ TwaAt(2) = Some(5)
    /\ result = <<>>

\* ---------------------------------------------------------- the race replay

\* src/src/pages/RaceReplayPage.tsx.  The page loads the track, then shows the
\* controls (only for a non-empty track, lines 266-285); while isPlaying, the
\* effect of lines 96-131 keeps an animation-frame callback registered.  Each
\* handler is one step, the effect it triggers included: the effect runs again
\* when isPlaying or playbackSpeed changes and then resets lastUpdateRef.

\* Longest track replayed.
MaxReplayLen == 3

\* Line 105: milliseconds per second.
MsPerSecond == 1000

\* Line 260.
Speeds == <<1, 2, 5, 10, 20>>

\* The time between two animation frames, in milliseconds: a frame of a 60 Hz
\* display, a late frame, and the first frame after the tab was in the
\* background.
FrameDeltas == {16, 250, 3000}

Min(a, b) == IF a <= b THEN a ELSE b

\* Array.prototype.indexOf, zero-based, -1 when absent.
IndexOf(arr, v) ==
    IF \E k \in 1..Len(arr) : arr[k] = v
    THEN (CHOOSE k \in 1..Len(arr) : arr[k] = v /\ \A j \in 1..(k - 1) : arr[j] # v) - 1
    ELSE -1

\* Lines 261-263.
NextSpeed(speed) == At(Speeds, (IndexOf(Speeds, speed) + 1) % Len(Speeds))

\* Lines 104-105, floored as on line 110: Math.floor((deltaTime / 1000) * speed).
PointsToAdvance(deltaTime, speed) == (deltaTime * speed) \div MsPerSecond

NextIndexUnclamped(prev, advance, n) == prev + advance

\* Line 110.
NextIndex(prev, advance, n) == Min(prev + advance, n - 1)

ReachedEndBeyond(next, n) == next > n - 1

\* Line 111.
ReachedEnd(next, n) == next >= n - 1

\* Line 97: the effect keeps the animation going.
Animating == isPlaying /\ Len(trackPoints) > 0

\* Line 281: the controls are on the page.
ControlsShown == pc = "replay" /\ Len(trackPoints) > 0

\* A track of n fixes; the replay uses its length only.
ReplayTrack(n) == ShiftTrack(n, [k \in 1..n |-> None])

\* Lines 150-171: the points arrive and loading ends.
loadTrackPoints ==
    /\ pc = "loading"
    /\ \E n \in 0..MaxReplayLen : trackPoints' = ReplayTrack(n)
    /\ pc' = "replay"
    /\ UNCHANGED <<thresholdDegrees, i, tacks, tackIdx, shifts, shiftIdx, args, result>>
    /\ UNCHANGED replayVars

\* Lines 98-119: one animation frame, delta milliseconds after the one before.
animate(delta) ==
    /\ pc = "replay"
    /\ Animating
    /\ LET deltaTime == sinceLastUpdate + delta
           advance == PointsToAdvance(deltaTime, playbackSpeed)
           next == NextIndex(currentIndex, advance, Len(trackPoints))
       IN  IF advance >= 1
           THEN /\ currentIndex' = next
                /\ isPlaying' = IF ReachedEnd(next, Len(trackPoints)) THEN FALSE ELSE isPlaying
                /\ sinceLastUpdate' = 0
           ELSE /\ sinceLastUpdate' = deltaTime
                /\ UNCHANGED <<currentIndex, isPlaying>>
    /\ UNCHANGED <<playbackSpeed, trackPoints, callVars>>

\* Lines 246-248, and line 122 when the effect starts the animation.
togglePlayPause ==
    /\ ControlsShown
    /\ isPlaying' = ~isPlaying
    /\ sinceLastUpdate' = IF ~isPlaying THEN 0 ELSE sinceLastUpdate
    /\ UNCHANGED <<currentIndex, playbackSpeed, trackPoints, callVars>>

\* Lines 250-253.
restart ==
    /\ ControlsShown
    /\ currentIndex' = 0
    /\ isPlaying' = FALSE
    /\ UNCHANGED <<playbackSpeed, sinceLastUpdate, trackPoints, callVars>>

\* Lines 255-258.
skipToEnd ==
    /\ ControlsShown
    /\ currentIndex' = Len(trackPoints) - 1
    /\ isPlaying' = FALSE
    /\ UNCHANGED <<playbackSpeed, sinceLastUpdate, trackPoints, callVars>>

\* Lines 260-265, and line 122 when the effect restarts the animation.
cycleSpeed ==
    /\ ControlsShown
    /\ playbackSpeed' = NextSpeed(playbackSpeed)
    /\ sinceLastUpdate' = IF isPlaying THEN 0 ELSE sinceLastUpdate
    /\ UNCHANGED <<isPlaying, currentIndex, trackPoints, callVars>>

AnimationFrame == \E delta \in FrameDeltas : animate(delta)

InitReplay ==
    /\ pc = "loading"
    /\ trackPoints = <<>>
    /\ thresholdDegrees = 0
    /\ i = 0
    /\ tacks = <<>>
    /\ tackIdx = <<>>
    /\ shifts = <<>>
    /\ shiftIdx = <<>>
    /\ args = <<>>
    /\ result = <<>>
    /\ ReplayAtMount

NextReplay ==
    \/ loadTrackPoints
    \/ togglePlayPause
    \/ restart
    \/ skipToEnd
    \/ cycleSpeed
    \/ AnimationFrame

SpecReplay == InitReplay /\ [][NextReplay]_vars

Last == Len(trackPoints) - 1

IndexInRange == Len(trackPoints) > 0 => (currentIndex >= 0 /\ currentIndex <= Last)

FrameNeverBack ==
    AnimationFrame =>
        /\ currentIndex' >= currentIndex
        /\ currentIndex' # currentIndex => isPlaying

InitPlayback ==
    /\ pc = "replay"
    /\ \E n \in 1..MaxReplayLen : trackPoints = ReplayTrack(n)
    /\ isPlaying = TRUE
    /\ \E k \in 0..(Len(trackPoints) - 1) : currentIndex = k
    /\ \E k \in 1..Len(Speeds) : playbackSpeed = Speeds[k]
    /\ sinceLastUpdate = 0
    /\ thresholdDegrees = 0
    /\ i = 0
    /\ tacks = <<>>
    /\ tackIdx = <<>>
    /\ shifts = <<>>
    /\ shiftIdx = <<>>
    /\ args = <<>>
    /\ result = <<>>

NextPlayback == AnimationFrame

SpecPlayback == InitPlayback /\ [][NextPlayback]_vars /\ WF_vars(AnimationFrame)

Finished == currentIndex = Last /\ ~isPlaying

BringsToLast ==
    /\ AnimationFrame
    /\ currentIndex' = Last
    /\ currentIndex # Last \/ sinceLastUpdate' = 0

\* C30: once playback is started on a non-empty track and animation frames
\* keep arriving with no further user action, currentIndex eventually reaches
\* the last point and isPlaying is then false for good; and an animation step
\* that brings currentIndex to n-1 turns isPlaying off in that same step.
C30_PlaybackEnds == <>[]Finished /\ [][BringsToLast => ~isPlaying']_vars

\* Playback of a three-point track at speed 1 has stopped at the last point.
C30_Witness ==
    /\ Len(trackPoints) = 3
    /\ playbackSpeed = 1
    /\ Finished

\* ------------------------------------------------------- the whole library

\* A call of any one of the analytics.
Init == InitTacks \/ InitShifts \/ InitBias \/ InitPerf

Next == NextTacks \/ NextShifts \/ NextBias \/ NextPerf

Spec == Init /\ [][Next]_vars

====
